---- MODULE Spec2Model ----
(***************************************************************************)
(* MainThreadEditorTabs: the mirror (_tabGroupModel, _tabModel) of the     *)
(* editor groups service, kept up to date by _updateTabsModel and sent to  *)
(* the extension host with $acceptEditorTabModel; and the two commands     *)
(* $moveTab and $closeTab.                                                 *)
(*                                                                         *)
(* JavaScript arrays are 0-based, TLA+ sequences 1-based: an event's       *)
(* editorIndex and a groupId used as an array index keep their 0-based     *)
(* value and are shifted by one where a sequence is accessed.              *)
(***************************************************************************)
EXTENDS Integers, Sequences, FiniteSets, TLC

\* ---- bounds of the model -------------------------------------------------
\* group identities the groups service hands out: 0 .. NumGroupIds-1
NumGroupIds == 3
\* groups the groups service holds at the same time
MaxGroups == 2
\* editors one group holds at the same time (a group holds all of AllEditors
\* in WideSpec)
MaxTabs == 3
\* notifications and commands that arrive before whenReady resolves
MaxEarly == 2

\* ---- values ---------------------------------------------------------------
\* the editor inputs: a plain one, a diff one and a side-by-side one
AllEditors == {"a", "b", "c"}
\* the editors that are opened where every kind of notification is at work
Editors == {"a", "b"}
Labels == {"n", "m"}
\* the editors whose name changes while they are open
Renamed == {"a"}
\* an absent optional field of IEditorsChangeEvent (editor?, editorIndex?)
NoEditor == "undefined"
NoIndex == -1
\* columnToEditorGroup's answer when the column has no group
SIDE_GROUP == -2

Kinds == {"GROUP_ACTIVE", "EDITOR_LABEL", "EDITOR_OPEN", "EDITOR_CLOSE",
          "EDITOR_ACTIVE", "EDITOR_MOVE", "GROUP_INDEX"}

VARIABLES
    groups,          \* groups service: sequence of [id, editors, active]
    activeGroup,     \* groups service: id of the active group
    names,           \* editor.getName() of every editor input
    nextId,          \* groups service: the next group identity
    ready,           \* whenReady has resolved and its callback has run
    early,           \* notifications and commands handled before that
    closing,         \* the closeEditor requests $closeTab awaits
    _tabGroupModel,  \* the Store: sequence of IEditorTabGroupDto
    _tabModel,       \* the keys of the Map groupId -> tabs
    proxyModel,      \* the last payload of $acceptEditorTabModel
    acceptCalls,     \* $acceptEditorTabModel calls made for the last notification
    handled,         \* what _updateTabsModel ran for the last notification
    lastEvent        \* the last notification or command, in brief

vars == <<groups, activeGroup, names, nextId, ready, early, closing, _tabGroupModel,
          _tabModel, proxyModel, acceptCalls, handled, lastEvent>>

\* ---- JavaScript helpers ---------------------------------------------------
\* if (x) on an optional editor / an optional number
TruthyEditor(e) == e # NoEditor
TruthyIndex(i) == i # NoIndex /\ i # 0

\* array.splice(i, 0, x) for i >= 0: an index past the end inserts at the end
SpliceIn(s, i, x) ==
    LET k == IF i > Len(s) THEN Len(s) ELSE i
    IN  SubSeq(s, 1, k) \o <<x>> \o SubSeq(s, k + 1, Len(s))

\* array.splice(i, 1) for i >= 0: an index past the end removes nothing
SpliceOut(s, i) ==
    IF i >= Len(s) THEN s ELSE SubSeq(s, 1, i) \o SubSeq(s, i + 2, Len(s))

\* array[i] is undefined
Undef(s, i) == i < 0 \/ i >= Len(s)

\* array.indexOf(x), 0-based, -1 when absent
IndexOf(s, x) ==
    IF \E k \in 1..Len(s) : s[k] = x
    THEN (CHOOSE k \in 1..Len(s) : s[k] = x /\ \A j \in 1..(k - 1) : s[j] # x) - 1
    ELSE -1

\* ---- the groups service, as the mirror reads it --------------------------
\* svc is [groups, activeGroup, names]: the state the service is in when the
\* mirror's code runs.
Svc == [groups |-> groups, activeGroup |-> activeGroup, names |-> names]

GroupIds(svc) == {svc.groups[k].id : k \in 1..Len(svc.groups)}

\* IEditorGroupsService.getGroup(id): defined iff HasGroup
HasGroup(svc, id) == id \in GroupIds(svc)
getGroup(svc, id) == svc.groups[CHOOSE k \in 1..Len(svc.groups) : svc.groups[k].id = id]

\* editorGroupToColumn: the group's position in the service's group order
editorGroupToColumn(svc, group) ==
    CHOOSE k \in 1..Len(svc.groups) : svc.groups[k].id = group.id

\* columnToEditorGroup: the identity of the group at that position
columnToEditorGroup(svc, column) ==
    IF column \in 1..Len(svc.groups) THEN svc.groups[column].id ELSE SIDE_GROUP

\* ---- tab projection -------------------------------------------------------
\* the class of an editor input and its intrinsic editorId
InputClass(e) == IF e = "b" THEN "diff" ELSE IF e = "c" THEN "sideBySide" ELSE "plain"
EditorTypeId(e) == IF e = "c" THEN NoEditor ELSE "default"
\* editor.primary.editorId, editor.secondary.editorId of a side-by-side input;
\* NoEditor when the side has none
PrimaryTypeId(e) == IF e = "c" THEN "p" ELSE "default"
SecondaryTypeId(e) == IF e = "c" THEN "s" ELSE "default"
\* the canonical URI of an input (of the primary / the secondary side)
CanonicalUri(e) == e
SecondaryUri(e) == "orig-" \o e

\* _buildTabObject that adds the second resource for the inputs whose
\* editorId it reports as 'sideBySide' only
_buildTabObjectSideOnly(svc, editor, group) ==
    LET editorId == IF InputClass(editor) = "diff" THEN "diff"
                    ELSE IF InputClass(editor) = "sideBySide" THEN "sideBySide"
                    ELSE EditorTypeId(editor)
        first == <<[resource |-> CanonicalUri(editor), viewId |-> editorId]>>
        second == IF editorId = "sideBySide"
                  THEN <<[resource |-> SecondaryUri(editor),
                          viewId |-> IF PrimaryTypeId(editor) # NoEditor
                                     THEN PrimaryTypeId(editor)
                                     ELSE EditorTypeId(editor)]>>
                  ELSE <<>>
    IN  [viewColumn |-> editorGroupToColumn(svc, group),
         label |-> svc.names[editor],
         resource |-> CanonicalUri(editor),
         editorId |-> editorId,
         additionalResourcesAndViewIds |-> first \o second,
         isActive |-> (group.active = editor)]

_buildTabObject(svc, editor, group) ==
    LET editorId == IF InputClass(editor) = "diff" THEN "diff"
                    ELSE IF InputClass(editor) = "sideBySide" THEN "sideBySide"
                    ELSE EditorTypeId(editor)
        first == <<[resource |-> CanonicalUri(editor), viewId |-> editorId]>>
        \* DiffEditorInput extends SideBySideEditorInput
        second == IF InputClass(editor) \in {"diff", "sideBySide"}
                  THEN <<[resource |-> SecondaryUri(editor),
                          viewId |-> IF PrimaryTypeId(editor) # NoEditor
                                     THEN PrimaryTypeId(editor)
                                     ELSE EditorTypeId(editor)]>>
                  ELSE <<>>
    IN  [viewColumn |-> editorGroupToColumn(svc, group),
         label |-> svc.names[editor],
         resource |-> CanonicalUri(editor),
         editorId |-> editorId,
         additionalResourcesAndViewIds |-> first \o second,
         isActive |-> (group.active = editor)]

\* ---- the Store ------------------------------------------------------------
\* activeTab is a reference to a tab object: none, the object now at position
\* idx (1-based) of the same group's tabs, or an object that was spliced out
\* of tabs and is kept alive by this reference only.
RefNone == [kind |-> "undefined"]
RefAt(i) == [kind |-> "tab", idx |-> i]
RefGone(t) == [kind |-> "removed", tab |-> t]

\* the reference after tabs.splice(i, 0, x)
RefAfterInsert(ref, len, i) ==
    LET k == IF i > len THEN len ELSE i
    IN  IF ref.kind = "tab" /\ ref.idx > k THEN RefAt(ref.idx + 1) ELSE ref

\* the reference after tabs.splice(i, 1)
RefAfterRemove(ref, tabs, i) ==
    IF ref.kind # "tab" \/ i >= Len(tabs) THEN ref
    ELSE IF ref.idx = i + 1 THEN RefGone(tabs[i + 1])
    ELSE IF ref.idx > i + 1 THEN RefAt(ref.idx - 1)
    ELSE ref

\* what a handler leaves: the Store, and whether it threw a TypeError
Done(model) == [threw |-> FALSE, model |-> model]
Threw(model) == [threw |-> TRUE, model |-> model]

\* ---- the incremental handlers --------------------------------------------
\* this._tabGroupModel[groupId] is addressed by the group IDENTITY used as an
\* array index.
\* _onDidGroupActivate that marks the active group and clears no other
_onDidGroupActivateOnly(svc, model) ==
    Done([k \in 1..Len(model) |->
            [model[k] EXCEPT !.isActive = (model[k].isActive
                                           \/ model[k].groupId = svc.activeGroup)]])

_onDidGroupActivate(svc, model) ==
    Done([k \in 1..Len(model) |->
            [model[k] EXCEPT !.isActive = (model[k].groupId = svc.activeGroup)]])

_onDidTabLabelChange(svc, model, groupId, editorInput, editorIndex) ==
    IF Undef(model, groupId) THEN Threw(model)
    ELSE IF Undef(model[groupId + 1].tabs, editorIndex) THEN Threw(model)
    ELSE Done([model EXCEPT ![groupId + 1].tabs[editorIndex + 1].label =
                                svc.names[editorInput]])

_onDidTabOpen(svc, model, groupId, editorInput, editorIndex) ==
    IF ~HasGroup(svc, groupId) THEN Done(model)
    ELSE IF Undef(model, groupId) THEN Threw(model)
    ELSE LET g == model[groupId + 1]
             tab == _buildTabObject(svc, editorInput, getGroup(svc, groupId))
         IN  Done([model EXCEPT ![groupId + 1] =
                    [g EXCEPT !.tabs = SpliceIn(g.tabs, editorIndex, tab),
                              !.activeTab = RefAfterInsert(g.activeTab, Len(g.tabs),
                                                           editorIndex)]])

_onDidTabClose(svc, model, groupId, editorIndex) ==
    IF ~HasGroup(svc, groupId) THEN Done(model)
    ELSE IF Undef(model, groupId) THEN Threw(model)
    ELSE LET g == model[groupId + 1]
             tabs == SpliceOut(g.tabs, editorIndex)
             spliced == [model EXCEPT ![groupId + 1] =
                            [g EXCEPT !.tabs = tabs,
                                      !.activeTab = RefAfterRemove(g.activeTab, g.tabs,
                                                                   editorIndex)]]
         IN  IF Len(tabs) = 0 THEN Done(SpliceOut(spliced, groupId))
             ELSE Done(spliced)

_onDidTabActiveChange(model, groupId, editorIndex) ==
    IF Undef(model, groupId) THEN Threw(model)
    ELSE LET g == model[groupId + 1]
         IN  Done([model EXCEPT ![groupId + 1] =
                    [g EXCEPT !.tabs = [i \in 1..Len(g.tabs) |->
                                          [g.tabs[i] EXCEPT !.isActive = (i = editorIndex + 1)]],
                              !.activeTab = IF editorIndex + 1 \in 1..Len(g.tabs)
                                            THEN RefAt(editorIndex + 1)
                                            ELSE RefNone]])

\* ---- the snapshot builder -------------------------------------------------
\* the last tab of the group with isActive, as the loop of lines 173-180 leaves it
LastActive(tabs) ==
    IF \E i \in 1..Len(tabs) : tabs[i].isActive
    THEN RefAt(CHOOSE i \in 1..Len(tabs) :
                 tabs[i].isActive /\ \A j \in (i + 1)..Len(tabs) : ~tabs[j].isActive)
    ELSE RefNone

_createTabsModel(svc) ==
    [k \in 1..Len(svc.groups) |->
        LET group == svc.groups[k]
            tabs == [i \in 1..Len(group.editors) |->
                        _buildTabObject(svc, group.editors[i], group)]
        IN  [groupId |-> group.id,
             isActive |-> (group.id = svc.activeGroup),
             viewColumn |-> editorGroupToColumn(svc, group),
             activeTab |-> LastActive(tabs),
             tabs |-> tabs]]

\* the keys _createTabsModel leaves in _tabModel
CreatedKeys(svc) == GroupIds(svc)

\* ---- the main handler -----------------------------------------------------
\* the case label the switch enters at; the cases below it are reached by
\* falling through
EntryCase(kind) ==
    CASE kind = "EDITOR_LABEL" -> 1
      [] kind = "EDITOR_OPEN" -> 2
      [] kind = "EDITOR_CLOSE" -> 3
      [] kind = "EDITOR_ACTIVE" -> 4
      [] OTHER -> 5

\* st is [model, keys, proxy]; the result adds what ran and whether
\* $acceptEditorTabModel was called
Outcome(st, r, name) ==
    [model |-> r.model, keys |-> st.keys,
     handled |-> IF r.threw THEN "threw" ELSE name,
     sent |-> ~r.threw]

\* the payload as the extension host receives it: activeTab by value
TabOfRef(g) ==
    IF g.activeTab.kind = "tab" THEN <<g.tabs[g.activeTab.idx]>>
    ELSE IF g.activeTab.kind = "removed" THEN <<g.activeTab.tab>>
    ELSE <<>>

acceptEditorTabModel(model) ==
    [k \in 1..Len(model) |-> [model[k] EXCEPT !.activeTab = TabOfRef(model[k])]]

_updateTabsModel(svc, st, event) ==
    LET entry == EntryCase(event.kind)
        m == st.model
    IN  IF event.kind = "GROUP_ACTIVE"
        THEN IF event.groupId = svc.activeGroup
             THEN Outcome(st, _onDidGroupActivate(svc, m), "GroupActivate")
             ELSE [model |-> m, keys |-> st.keys, handled |-> "return", sent |-> FALSE]
        ELSE IF entry <= 1 /\ TruthyEditor(event.editor) /\ TruthyIndex(event.editorIndex)
        THEN Outcome(st, _onDidTabLabelChange(svc, m, event.groupId, event.editor,
                                              event.editorIndex), "TabLabelChange")
        ELSE IF entry <= 2 /\ TruthyEditor(event.editor) /\ TruthyIndex(event.editorIndex)
        THEN Outcome(st, _onDidTabOpen(svc, m, event.groupId, event.editor,
                                       event.editorIndex), "TabOpen")
        ELSE IF entry <= 3 /\ TruthyIndex(event.editorIndex)
        THEN Outcome(st, _onDidTabClose(svc, m, event.groupId, event.editorIndex),
                     "TabClose")
        ELSE IF entry <= 4 /\ TruthyIndex(event.editorIndex)
        THEN Outcome(st, _onDidTabActiveChange(m, event.groupId, event.editorIndex),
                     "TabActiveChange")
        ELSE [model |-> _createTabsModel(svc), keys |-> CreatedKeys(svc),
              handled |-> "rebuild", sent |-> TRUE]

\* ---- reverse resolution ---------------------------------------------------
\* the untyped editor input of a tab descriptor; reading
\* additionalResourcesAndViewIds[1] of a descriptor that has one entry only
\* is a TypeError
_tabToUntypedEditorInput(tab) ==
    IF tab.editorId # "diff" /\ tab.editorId # "sideBySide"
    THEN [shape |-> "resource", resource |-> tab.resource, override |-> tab.editorId]
    ELSE IF Len(tab.additionalResourcesAndViewIds) < 2
    THEN [shape |-> "TypeError"]
    ELSE IF tab.editorId = "sideBySide"
    THEN [shape |-> "sideBySide", resource |-> tab.resource,
          secondary |-> tab.additionalResourcesAndViewIds[2].resource]
    ELSE [shape |-> "diff", resource |-> tab.resource,
          secondary |-> tab.additionalResourcesAndViewIds[2].resource]

\* EditorInput.matches(untyped): the service's own equivalence test
Matches(editor, untyped) ==
    IF untyped.shape = "resource"
    THEN InputClass(editor) = "plain" /\ CanonicalUri(editor) = untyped.resource
    ELSE IF untyped.shape \in {"sideBySide", "diff"}
    THEN /\ InputClass(editor) = untyped.shape
         /\ CanonicalUri(editor) = untyped.resource
         /\ SecondaryUri(editor) = untyped.secondary
    ELSE FALSE

\* group.editors.find(editor => editor.matches(...)): NoEditor when none;
\* the callback's TypeError, raised for the first editor it is called with
TypeError == "TypeError"
FindEditor(group, tab) ==
    LET untyped == _tabToUntypedEditorInput(tab)
        hits == {k \in 1..Len(group.editors) : Matches(group.editors[k], untyped)}
    IN  IF untyped.shape = "TypeError" /\ group.editors # <<>> THEN TypeError
        ELSE IF hits = {} THEN NoEditor
        ELSE group.editors[CHOOSE k \in hits : \A j \in hits : k <= j]

\* ---- changes of the groups service ---------------------------------------
ChangeGroup(svc, id, g) ==
    [svc EXCEPT !.groups = [k \in 1..Len(svc.groups) |->
                              IF svc.groups[k].id = id THEN g ELSE svc.groups[k]]]

SvcOpen(svc, id, e, i) ==
    LET g == getGroup(svc, id)
    IN  ChangeGroup(svc, id, [g EXCEPT !.editors = SpliceIn(g.editors, i, e),
                                       !.active = IF g.editors = <<>> THEN e ELSE g.active])

SvcSetActive(svc, id, e) ==
    ChangeGroup(svc, id, [getGroup(svc, id) EXCEPT !.active = e])

\* the closed input is disposed of: opened again, it is a new input with its
\* first name
SvcRemove(svc, id, e) ==
    LET g == getGroup(svc, id)
        left == ChangeGroup(svc, id,
                    [g EXCEPT !.editors = SpliceOut(g.editors, IndexOf(g.editors, e)),
                              !.active = IF g.active = e THEN NoEditor ELSE g.active])
    IN  IF \E k \in 1..Len(left.groups) : IndexOf(left.groups[k].editors, e) # -1
        THEN left
        ELSE [left EXCEPT !.names[e] = "n"]

SvcMoveWithin(svc, id, e, i) ==
    LET g == getGroup(svc, id)
        rest == SpliceOut(g.editors, IndexOf(g.editors, e))
    IN  ChangeGroup(svc, id, [g EXCEPT !.editors = SpliceIn(rest, i, e)])

\* addGroup(last group, GroupDirection.RIGHT)
SvcAddGroup(svc, id) ==
    [svc EXCEPT !.groups = Append(svc.groups, [id |-> id, editors |-> <<>>,
                                               active |-> NoEditor])]

SvcRemoveGroup(svc, id) ==
    [svc EXCEPT !.groups = SpliceOut(svc.groups, editorGroupToColumn(svc, [id |-> id]) - 1)]

Event(kind, groupId, editor, editorIndex) ==
    [kind |-> kind, groupId |-> groupId, editor |-> editor, editorIndex |-> editorIndex]

Step(svc, event) == [svc |-> svc, event |-> event]

\* group.closeEditor(editor): an active editor with siblings hands the
\* activation to a sibling first; each change is notified as it happens
closeEditor(svc, id, e) ==
    LET g == getGroup(svc, id)
        i == IndexOf(g.editors, e)
        sibling == IF i + 1 < Len(g.editors) THEN g.editors[i + 2] ELSE g.editors[i]
        svc1 == IF g.active = e /\ Len(g.editors) > 1 THEN SvcSetActive(svc, id, sibling)
                ELSE svc
        svc2 == SvcRemove(svc1, id, e)
    IN  [svc |-> svc2,
         steps |-> (IF svc1 # svc
                    THEN <<Step(svc1, Event("EDITOR_ACTIVE", id, sibling,
                                            IndexOf(g.editors, sibling)))>>
                    ELSE <<>>)
                   \o <<Step(svc2, Event("EDITOR_CLOSE", id, e, i))>>]

\* sourceGroup.moveEditor(editor, targetGroup, {index, preserveFocus: true})
moveEditor(svc, source, e, target, index) ==
    IF source = target
    THEN LET svc1 == SvcMoveWithin(svc, source, e, index)
         IN  [svc |-> svc1,
              steps |-> <<Step(svc1, Event("EDITOR_MOVE", source, e,
                                           IndexOf(getGroup(svc1, source).editors, e)))>>]
    ELSE LET svc1 == SvcOpen(svc, target, e, index)
             closed == closeEditor(svc1, source, e)
         IN  [svc |-> closed.svc,
              steps |-> <<Step(svc1, Event("EDITOR_OPEN", target, e, index))>>
                        \o closed.steps]

\* ---- reconciliation -------------------------------------------------------
Store == [model |-> _tabGroupModel, keys |-> _tabModel, proxy |-> proxyModel,
          handled |-> "none", calls |-> 0]

\* the listener of onDidEditorsChange run on every notification in turn; a
\* TypeError of the listener is reported by the emitter and ends that call only
RECURSIVE Reconcile(_, _)
Reconcile(st, steps) ==
    IF steps = <<>> THEN st
    ELSE LET r == _updateTabsModel(steps[1].svc, st, steps[1].event)
         IN  Reconcile([model |-> r.model, keys |-> r.keys,
                        proxy |-> IF r.sent THEN acceptEditorTabModel(r.model)
                                  ELSE st.proxy,
                        handled |-> r.handled,
                        calls |-> IF r.sent THEN 1 ELSE 0],
                       Tail(steps))

\* what lastEvent keeps of a notification: its kind, its index and whether
\* it names an editor; a command is kept as it is
Brief(event) ==
    IF "editorIndex" \in DOMAIN event
    THEN [kind |-> event.kind, editorIndex |-> event.editorIndex,
          hasEditor |-> TruthyEditor(event.editor)]
    ELSE event

\* the service moves to svc, having notified steps on the way
Changed(svc, steps, event) ==
    \E st \in {Reconcile(Store, steps)}, to \in {svc} :
        /\ groups' = to.groups
        /\ activeGroup' = to.activeGroup
        /\ names' = to.names
        /\ _tabGroupModel' = st.model
        /\ _tabModel' = st.keys
        /\ proxyModel' = st.proxy
        /\ handled' = st.handled
        /\ acceptCalls' = st.calls
        /\ lastEvent' = Brief(event)

\* ---- initial state --------------------------------------------------------
Init ==
    /\ groups = <<[id |-> 0, editors |-> <<>>, active |-> NoEditor]>>
    /\ activeGroup = 0
    /\ names = [e \in AllEditors |-> "n"]
    /\ nextId = 1
    /\ ready = FALSE
    /\ early = 0
    /\ closing = {}
    /\ _tabGroupModel = <<>>
    /\ _tabModel = {}
    /\ proxyModel = <<>>
    /\ acceptCalls = 0
    /\ handled = "none"
    /\ lastEvent = [kind |-> "constructor"]

\* ---- the readiness signal -------------------------------------------------
\* this._editorGroupsService.whenReady.then(() => this._createTabsModel())
WhenReady ==
    /\ closing = {}
    /\ ~ready
    /\ ready' = TRUE
    /\ _tabGroupModel' = _createTabsModel(Svc)
    /\ _tabModel' = CreatedKeys(Svc)
    /\ handled' = "rebuild"
    /\ acceptCalls' = 0
    /\ lastEvent' = [kind |-> "whenReady"]
    /\ UNCHANGED <<groups, activeGroup, names, nextId, early, closing, proxyModel>>

\* ---- notifications of the editor service ---------------------------------
\* Every change of the groups service is notified when it happens, with the
\* group's identity and, where the flags say so, the editor and its index.
Shapes == {"full", "noEditor", "noIndex"}
Payload(kind, id, e, i, shape) ==
    Event(kind, id, IF shape = "noEditor" THEN NoEditor ELSE e,
          IF shape = "noIndex" THEN NoIndex ELSE i)

\* one more notification or command is accepted
Arrives ==
    /\ closing = {}
    /\ ready \/ early < MaxEarly
    /\ early' = IF ready THEN early ELSE early + 1
    /\ UNCHANGED ready

\* an editor is open in one group at a time
IsOpen(e) == \E k \in 1..Len(groups) : IndexOf(groups[k].editors, e) # -1

Notified(svc, event) ==
    /\ Arrives
    /\ Changed(svc, <<Step(svc, event)>>, event)
    /\ UNCHANGED <<nextId, closing>>

EditorOpen(id, e, i, shape) ==
    /\ HasGroup(Svc, id)
    /\ Len(getGroup(Svc, id).editors) < MaxTabs
    /\ ~IsOpen(e)
    /\ i \in 0..Len(getGroup(Svc, id).editors)
    /\ Notified(SvcOpen(Svc, id, e, i),
                Payload("EDITOR_OPEN", id, e, i, shape))

\* an editor that is not the active one, or the only editor of its group
EditorClose(id, i, shape) ==
    /\ HasGroup(Svc, id)
    /\ i \in 0..(Len(getGroup(Svc, id).editors) - 1)
    /\ LET g == getGroup(Svc, id)
           e == g.editors[i + 1]
       IN  /\ g.active # e \/ Len(g.editors) = 1
           /\ Notified(SvcRemove(Svc, id, e),
                       Payload("EDITOR_CLOSE", id, e, i, shape))

EditorActive(id, i, shape) ==
    /\ HasGroup(Svc, id)
    /\ i \in 0..(Len(getGroup(Svc, id).editors) - 1)
    /\ LET g == getGroup(Svc, id)
           e == g.editors[i + 1]
       IN  /\ g.active # e
           /\ Notified(SvcSetActive(Svc, id, e),
                       Payload("EDITOR_ACTIVE", id, e, i, shape))

\* the name of an editor changes; the group that holds it notifies
EditorLabel(id, i, label, shape) ==
    /\ HasGroup(Svc, id)
    /\ i \in 0..(Len(getGroup(Svc, id).editors) - 1)
    /\ LET e == getGroup(Svc, id).editors[i + 1]
       IN  /\ e \in Renamed
           /\ names[e] # label
           /\ Notified([Svc EXCEPT !.names[e] = label],
                       Payload("EDITOR_LABEL", id, e, i, shape))

\* an editor moves inside its group
EditorMove(id, i, j) ==
    /\ HasGroup(Svc, id)
    /\ i \in 0..(Len(getGroup(Svc, id).editors) - 1)
    /\ j \in 0..(Len(getGroup(Svc, id).editors) - 1)
    /\ i # j
    /\ LET e == getGroup(Svc, id).editors[i + 1]
       IN  Notified(SvcMoveWithin(Svc, id, e, j), Event("EDITOR_MOVE", id, e, j))

GroupActivate(id) ==
    /\ HasGroup(Svc, id)
    /\ id # activeGroup
    /\ Notified([Svc EXCEPT !.activeGroup = id], Event("GROUP_ACTIVE", id, NoEditor, NoIndex))

\* the group that stops being the active one reports GROUP_ACTIVE as well
StaleGroupActivate(id) ==
    /\ HasGroup(Svc, id)
    /\ id # activeGroup
    /\ Notified(Svc, Event("GROUP_ACTIVE", id, NoEditor, NoIndex))

GroupAdd ==
    /\ Arrives
    /\ nextId < NumGroupIds
    /\ Len(groups) < MaxGroups
    /\ LET svc == SvcAddGroup(Svc, nextId)
           event == Event("GROUP_INDEX", nextId, NoEditor, NoIndex)
       IN  Changed(svc, <<Step(svc, event)>>, event)
    /\ nextId' = nextId + 1
    /\ UNCHANGED closing

\* an empty group that is not the active one is removed
GroupRemove(id) ==
    /\ HasGroup(Svc, id)
    /\ id # activeGroup
    /\ getGroup(Svc, id).editors = <<>>
    /\ Notified(SvcRemoveGroup(Svc, id), Event("GROUP_INDEX", id, NoEditor, NoIndex))

\* ---- commands of the extension host --------------------------------------
\* a tab descriptor as the projection makes it, for any column
TabDescriptor(column, e) ==
    [_buildTabObject(Svc, e, groups[1]) EXCEPT !.viewColumn = column, !.isActive = FALSE]

MoveIndexes == {-1, 0, 1, 99}
Columns == 1..(MaxGroups + 1)

Command(kind, tab, result) == [kind |-> kind, result |-> result]
\* what lastEvent keeps of a $moveTab: how it ended and whether it called addGroup
Moved(result, created) == [kind |-> "$moveTab", result |-> result, created |-> created]
\* and of one that came to call moveEditor: the editor, and the index and the
\* view column it was called with
MovedEditor(created, editor, index, viewColumn) ==
    [kind |-> "$moveTab", result |-> "moveEditor", created |-> created,
     editor |-> editor, index |-> index, viewColumn |-> viewColumn]

\* the source column and editor of the descriptor, the target column and the
\* index; an input the command does not come to read stands for all its values
MoveInputsOf(editors) ==
    {in \in Columns \X editors \X Columns \X MoveIndexes :
        LET known == in[1] \in 1..Len(groups)
            found == known /\ IndexOf(groups[in[1]].editors, in[2]) # -1
        IN  /\ ~known => in[2] = "a" /\ in[3] = 1
            /\ ~found => in[4] = 0}
MoveInputs == MoveInputsOf(Editors)

CloseInputsOf(editors) ==
    {in \in Columns \X editors : in[1] \notin 1..Len(groups) => in[2] = "a"}
CloseInputs == CloseInputsOf(Editors)

\* the index with a negative one taken for the front
ClampIndexFront(index, count) ==
    IF index < 0 THEN 0 ELSE IF index > count THEN count ELSE index

\* an index out of bounds places the editor at the end
ClampIndex(index, count) ==
    IF index < 0 \/ index > count THEN count ELSE index

\* MoveTarget with a column that has no group taken for the last group
MoveTargetLastGroup(tab, index, viewColumn) ==
    LET sourceId == columnToEditorGroup(Svc, tab.viewColumn)
        targetId == IF viewColumn \in 1..Len(groups)
                    THEN columnToEditorGroup(Svc, viewColumn)
                    ELSE groups[Len(groups)].id
        resolved == HasGroup(Svc, sourceId) /\ HasGroup(Svc, targetId)
        count == IF resolved THEN Len(getGroup(Svc, targetId).editors) ELSE 0
    IN  [sourceId |-> sourceId,
         targetId |-> targetId,
         creates |-> FALSE,
         svc |-> Svc,
         steps |-> <<>>,
         resolved |-> resolved,
         count |-> count,
         index |-> ClampIndex(index, count),
         editorInput |-> IF resolved THEN FindEditor(getGroup(Svc, sourceId), tab)
                         ELSE NoEditor]

\* $moveTab(tab, index, viewColumn), up to the lookup of the editor: the
\* source and target groups, the index as clamped, the editor found, and the
\* service as addGroup left it with the notification of the new group
MoveTarget(tab, index, viewColumn) ==
    LET groupId == columnToEditorGroup(Svc, viewColumn)
        sourceId == columnToEditorGroup(Svc, tab.viewColumn)
        creates == HasGroup(Svc, sourceId) /\ groupId \notin _tabModel
        svc1 == IF creates THEN SvcAddGroup(Svc, nextId) ELSE Svc
        targetId == IF creates THEN nextId ELSE groupId
        resolved == HasGroup(Svc, sourceId) /\ HasGroup(svc1, targetId)
        count == IF resolved THEN Len(getGroup(svc1, targetId).editors) ELSE 0
    IN  [sourceId |-> sourceId,
         targetId |-> targetId,
         creates |-> creates,
         svc |-> svc1,
         steps |-> IF creates
                   THEN <<Step(svc1, Event("GROUP_INDEX", nextId, NoEditor, NoIndex))>>
                   ELSE <<>>,
         resolved |-> resolved,
         count |-> count,
         index |-> ClampIndex(index, count),
         editorInput |-> IF resolved THEN FindEditor(getGroup(svc1, sourceId), tab)
                         ELSE NoEditor]

moveTab(tab, index, viewColumn) ==
    \E t \in {MoveTarget(tab, index, viewColumn)} :
        /\ Arrives
        /\ UNCHANGED closing
        /\ t.creates => nextId < NumGroupIds /\ Len(groups) < MaxGroups
        /\ nextId' = IF t.creates THEN nextId + 1 ELSE nextId
        /\ IF ~t.resolved
           THEN Changed(Svc, <<>>, Moved("return", FALSE))
           ELSE IF t.editorInput \in {NoEditor, TypeError}
           THEN Changed(t.svc, t.steps,
                        Moved(IF t.editorInput = TypeError THEN TypeError ELSE "return",
                              t.creates))
           ELSE /\ t.sourceId # t.targetId => t.count < MaxTabs
                /\ \E moved \in {moveEditor(t.svc, t.sourceId, t.editorInput, t.targetId,
                                            t.index)} :
                      Changed(moved.svc, t.steps \o moved.steps,
                              MovedEditor(t.creates, t.editorInput, index, viewColumn))

\* $closeTab(tab), up to the await of group.closeEditor(editor)
closeTab(tab) ==
    LET id == columnToEditorGroup(Svc, tab.viewColumn)
        editor == IF HasGroup(Svc, id) THEN FindEditor(getGroup(Svc, id), tab)
                  ELSE NoEditor
    IN  /\ Arrives
        /\ Changed(Svc, <<>>,
                   Command("$closeTab", tab,
                           IF editor = TypeError THEN TypeError
                           ELSE IF editor = NoEditor THEN "return" ELSE "closeEditor"))
        /\ closing' = IF editor \in {NoEditor, TypeError} THEN closing
                      ELSE closing \cup {[group |-> id, editor |-> editor]}
        /\ UNCHANGED nextId

\* the close request is carried out by the group
CloseEditorCompletes(req) ==
    /\ req \in closing
    /\ closing' = closing \ {req}
    /\ LET live == /\ HasGroup(Svc, req.group)
                   /\ IndexOf(getGroup(Svc, req.group).editors, req.editor) # -1
           closed == closeEditor(Svc, req.group, req.editor)
           event == [kind |-> "closeEditor", group |-> req.group, editor |-> req.editor]
       IN  IF live THEN Changed(closed.svc, closed.steps, event)
           ELSE Changed(Svc, <<>>, event)
    /\ UNCHANGED <<nextId, ready, early>>

\* ---- the specification ----------------------------------------------------
Ids == 0..(NumGroupIds - 1)
Indexes == 0..(MaxTabs - 1)

\* The service carries out a close request before anything else happens
\* (closing = {} guards the other actions): $closeTab has nothing left to do
\* after its await, so what the service does in between reaches the mirror as
\* its notifications do at any other time.

\* the steps of the mirror, the notifications carrying one of the shapes
Steps(shapes) ==
    \/ WhenReady
    \/ \E id \in Ids, e \in Editors, i \in Indexes, shape \in shapes :
          EditorOpen(id, e, i, shape)
    \/ \E id \in Ids, i \in Indexes, shape \in shapes : EditorClose(id, i, shape)
    \/ \E id \in Ids, i \in Indexes, shape \in shapes : EditorActive(id, i, shape)
    \/ \E id \in Ids, i \in Indexes, l \in Labels, shape \in shapes :
          EditorLabel(id, i, l, shape)
    \/ \E id \in Ids, i, j \in Indexes : EditorMove(id, i, j)
    \/ \E id \in Ids : GroupActivate(id)
    \/ \E id \in Ids : StaleGroupActivate(id)
    \/ GroupAdd
    \/ \E id \in Ids : GroupRemove(id)
    \/ \E in \in MoveInputs :
          \E tab \in {TabDescriptor(in[1], in[2])} : moveTab(tab, in[4], in[3])
    \/ \E in \in CloseInputs :
          \E tab \in {TabDescriptor(in[1], in[2])} : closeTab(tab)
    \/ \E req \in closing : CloseEditorCompletes(req)

Next == Steps(Shapes)

Spec == Init /\ [][Next]_vars

\* every notification carries its editor and its index
NextFull == Steps({"full"})

FullSpec == Init /\ [][NextFull]_vars

\* editors of every class are opened, closed and moved by command; every
\* notification carries its editor and its index
NextWide ==
    \/ WhenReady
    \/ \E id \in Ids, e \in AllEditors, i \in Indexes : EditorOpen(id, e, i, "full")
    \/ \E id \in Ids, i \in Indexes : EditorClose(id, i, "full")
    \/ GroupAdd
    \/ \E in \in MoveInputsOf(AllEditors) :
          \E tab \in {TabDescriptor(in[1], in[2])} : moveTab(tab, in[4], in[3])
    \/ \E in \in CloseInputsOf(AllEditors) :
          \E tab \in {TabDescriptor(in[1], in[2])} : closeTab(tab)
    \/ \E req \in closing : CloseEditorCompletes(req)

WideSpec == Init /\ [][NextWide]_vars

\* ---- what the claims speak of ---------------------------------------------
\* _updateTabsModel returned after a handler or the rebuild ran
Applied == {"GroupActivate", "TabLabelChange", "TabOpen", "TabClose",
            "TabActiveChange", "rebuild"}

NotificationKinds == {"EDITOR_LABEL", "EDITOR_OPEN", "EDITOR_CLOSE", "EDITOR_ACTIVE",
                      "EDITOR_MOVE", "GROUP_INDEX", "GROUP_ACTIVE"}

\* the last step handled a change notification and nothing else
AfterNotification == lastEvent.kind \in NotificationKinds

\* the groups and, in order, the editors of the Store and of the service
StoreShape ==
    [k \in 1..Len(_tabGroupModel) |->
        [id |-> _tabGroupModel[k].groupId,
         editors |-> [i \in 1..Len(_tabGroupModel[k].tabs) |->
                        _tabGroupModel[k].tabs[i].resource]]]

ServiceShape ==
    [k \in 1..Len(groups) |->
        [id |-> groups[k].id,
         editors |-> [i \in 1..Len(groups[k].editors) |->
                        CanonicalUri(groups[k].editors[i])]]]

ActiveGroups(model) == {k \in 1..Len(model) : model[k].isActive}
ActiveTabs(g) == {i \in 1..Len(g.tabs) : g.tabs[i].isActive}

\* C1: after every reconciliation step that _updateTabsModel returned from,
\* the Store has the groups of the groups service, in its order, and every
\* group the editors of that group, in their order.
C1_MirrorAgrees ==
    (ready /\ AfterNotification /\ handled \in Applied) => StoreShape = ServiceShape

\* C2: once the Store is built, a Store that has groups has exactly one group
\* with isActive.
C2_OneActiveGroup ==
    (ready /\ _tabGroupModel # <<>>) => Cardinality(ActiveGroups(_tabGroupModel)) = 1

\* C3: once the Store is built, every group of the Store that has tabs has
\* exactly one tab with isActive, and activeTab refers to that tab, in tabs.
C3_OneActiveTab ==
    ready =>
        \A k \in 1..Len(_tabGroupModel) :
            LET g == _tabGroupModel[k]
            IN  g.tabs # <<>> =>
                    /\ Cardinality(ActiveTabs(g)) = 1
                    /\ g.activeTab.kind = "tab"
                    /\ g.activeTab.idx \in ActiveTabs(g)

\* C4: no group of the Store, and no group of a payload sent to the extension
\* host, has an empty tab list.
C4_NoEmptyGroup ==
    /\ \A k \in 1..Len(_tabGroupModel) : _tabGroupModel[k].tabs # <<>>
    /\ \A k \in 1..Len(proxyModel) : proxyModel[k].tabs # <<>>

\* C5: for every change notification other than a GROUP_ACTIVE of a group that
\* is not the active one, $acceptEditorTabModel is called exactly once, after
\* the Store was changed, with the whole group sequence of the Store.
C5_NotifiedOnce ==
    (AfterNotification /\ handled # "return") =>
        /\ acceptCalls = 1
        /\ proxyModel = acceptEditorTabModel(_tabGroupModel)

\* C6: when whenReady resolves the Store is built from the groups service and
\* the built group sequence is sent to the extension host.
C6_FirstSnapshot ==
    lastEvent.kind = "whenReady" =>
        /\ _tabGroupModel = _createTabsModel(Svc)
        /\ acceptCalls = 1
        /\ proxyModel = acceptEditorTabModel(_tabGroupModel)

\* the handler of each kind of notification
OwnHandler(kind) ==
    CASE kind = "EDITOR_LABEL" -> "TabLabelChange"
      [] kind = "EDITOR_OPEN" -> "TabOpen"
      [] kind = "EDITOR_CLOSE" -> "TabClose"
      [] kind = "EDITOR_ACTIVE" -> "TabActiveChange"
      [] OTHER -> "rebuild"

\* the fields the kind needs are in the notification (index 0 is an index)
FieldsPresent(event) ==
    /\ event.editorIndex # NoIndex
    /\ event.kind \in {"EDITOR_LABEL", "EDITOR_OPEN"} => event.hasEditor

\* C7: once the Store is built, a notification of EDITOR_OPEN, EDITOR_LABEL,
\* EDITOR_CLOSE or EDITOR_ACTIVE with its fields and editorIndex = 0 is handled
\* by the handler of its kind, not by the rebuild.
C7_IndexZeroIsAnIndex ==
    (/\ ready
     /\ lastEvent.kind \in {"EDITOR_LABEL", "EDITOR_OPEN", "EDITOR_CLOSE", "EDITOR_ACTIVE"}
     /\ FieldsPresent(lastEvent)
     /\ lastEvent.editorIndex = 0)
        => handled = OwnHandler(lastEvent.kind)

\* C8: a notification of another kind, or one that lacks a field its kind
\* needs, is handled by the rebuild and leaves the Store as built from the
\* groups service.
C8_FallbackIsRebuild ==
    (/\ lastEvent.kind \in NotificationKinds \ {"GROUP_ACTIVE"}
     /\ OwnHandler(lastEvent.kind) = "rebuild" \/ ~FieldsPresent(lastEvent))
        => /\ handled = "rebuild"
           /\ _tabGroupModel = _createTabsModel(Svc)

\* the tab lists of the Store, by group
TabsView(model) ==
    [k \in 1..Len(model) |-> [groupId |-> model[k].groupId, tabs |-> model[k].tabs]]

\* the Store without the tab at index i of the group with identity id, and
\* without that group if no tab is left in it
CloseAt(view, id, i) ==
    LET at == {k \in 1..Len(view) : view[k].groupId = id}
        k == CHOOSE k \in at : TRUE
        left == [view EXCEPT ![k].tabs = SpliceOut(view[k].tabs, i)]
    IN  IF at = {} THEN view
        ELSE IF left[k].tabs = <<>> THEN SpliceOut(left, k - 1)
        ELSE left

\* C9: once the Store is built, an EDITOR_CLOSE notification for group id and
\* index i removes the tab at index i of the Store group with that identity,
\* removes the group if it has no tab left, and leaves the other tabs and
\* groups in place.
C9_TabCloseRemoves ==
    [][\A id \in Ids, i \in Indexes :
          (ready /\ EditorClose(id, i, "full"))
              => TabsView(_tabGroupModel') = CloseAt(TabsView(_tabGroupModel), id, i)]_vars

\* C10: once the Store is built, a $moveTab or $closeTab that does not find
\* its group or its editor raises no error and leaves the groups service and
\* the Store as they were.
C10_FailedCommandIsNoOp ==
    [][(/\ ready
        /\ lastEvent'.kind \in {"$moveTab", "$closeTab"}
        /\ lastEvent'.result \in {"return", TypeError})
          => /\ lastEvent'.result = "return"
             /\ groups' = groups
             /\ activeGroup' = activeGroup
             /\ _tabGroupModel' = _tabGroupModel]_vars

\* the identities of the groups of the service, in its order
GroupOrder(gs) == [k \in 1..Len(gs) |-> gs[k].id]

\* the identities of the groups of the Store
StoreIds(model) == {model[k].groupId : k \in 1..Len(model)}

\* C11: once the Store is built, a $moveTab that resolves its editor and
\* targets a view column with no group adds exactly one group, to the right
\* of the last group, and moves the editor out of its group into the new one;
\* one that targets the column of a group the Store and _tabModel know adds
\* no group.
C11_MoveCreatesGroup ==
    [][(ready /\ lastEvent'.kind = "$moveTab" /\ lastEvent'.result = "moveEditor") =>
          LET column == lastEvent'.viewColumn
              e == lastEvent'.editor
              last == groups'[Len(groups')]
          IN  IF column \notin 1..Len(groups)
              THEN /\ Len(groups') = Len(groups) + 1
                   /\ SubSeq(GroupOrder(groups'), 1, Len(groups)) = GroupOrder(groups)
                   /\ last.id \notin GroupIds(Svc)
                   /\ last.editors = <<e>>
                   /\ \A k \in 1..Len(groups) : IndexOf(groups'[k].editors, e) = -1
                   /\ \E k \in 1..Len(groups) : IndexOf(groups[k].editors, e) # -1
              ELSE (/\ groups[column].id \in _tabModel
                    /\ groups[column].id \in StoreIds(_tabGroupModel))
                       => GroupOrder(groups') = GroupOrder(groups)]_vars

\* a $moveTab has just moved an editor into the group it created
C11_Witness ==
    /\ ready
    /\ lastEvent.kind = "$moveTab"
    /\ lastEvent.result = "moveEditor"
    /\ lastEvent.created
    /\ Len(groups) = 2
    /\ groups[1].editors # <<>>
    /\ Len(groups[2].editors) = 1

\* C12: a $moveTab that resolves its editor moves it whatever the index: to
\* that index of the target group when it is within 0 .. the number of editors
\* of the target group, to the end when it is negative or larger (an editor
\* moved inside its own group to the index past the end is the last one);
\* the active group stays the active group.
C12_IndexClamped ==
    [][(lastEvent'.kind = "$moveTab" /\ lastEvent'.result = "moveEditor") =>
          LET index == lastEvent'.index
              e == lastEvent'.editor
              column == lastEvent'.viewColumn
              before == IF lastEvent'.created THEN <<>> ELSE groups[column].editors
              after == IF lastEvent'.created THEN groups'[Len(groups')].editors
                       ELSE groups'[column].editors
              count == Len(before)
              wanted == IF 0 <= index /\ index <= count THEN index ELSE count
              within == IndexOf(before, e) # -1
          IN  /\ IndexOf(after, e) = IF within /\ wanted = count THEN count - 1 ELSE wanted
              /\ Len(after) = IF within THEN count ELSE count + 1
              /\ activeGroup' = activeGroup]_vars

\* a $moveTab with index 99 has just placed an editor behind the two editors
\* of the group at the target column
C12_Witness ==
    /\ ready
    /\ lastEvent.kind = "$moveTab"
    /\ lastEvent.result = "moveEditor"
    /\ lastEvent.index = 99
    /\ ~lastEvent.created
    /\ Len(groups) = 2
    /\ Len(groups[lastEvent.viewColumn].editors) = 3
    /\ groups[lastEvent.viewColumn].editors[3] = lastEvent.editor

\* C13: a GROUP_ACTIVE notification of the group that is the active group of
\* the groups service leaves the Store group with that identity active and
\* every other group not active, and changes nothing else of the Store; a
\* GROUP_ACTIVE notification of another group leaves the Store, _tabModel and
\* the extension host's payload as they were.
C13_GroupActivateFrame ==
    [][lastEvent'.kind = "GROUP_ACTIVE" =>
          IF handled' = "GroupActivate"
          THEN _tabGroupModel' =
                  [k \in 1..Len(_tabGroupModel) |->
                      [_tabGroupModel[k] EXCEPT
                          !.isActive = (_tabGroupModel[k].groupId = activeGroup')]]
          ELSE /\ handled' = "return"
               /\ _tabGroupModel' = _tabGroupModel
               /\ _tabModel' = _tabModel
               /\ proxyModel' = proxyModel
               /\ acceptCalls' = 0]_vars

\* a GROUP_ACTIVE notification has just made the second of two Store groups
\* the active one, each of them holding a tab
C13_Witness ==
    /\ ready
    /\ lastEvent.kind = "GROUP_ACTIVE"
    /\ handled = "GroupActivate"
    /\ Len(_tabGroupModel) = 2
    /\ _tabGroupModel[2].groupId = activeGroup
    /\ _tabGroupModel[2].isActive
    /\ ~_tabGroupModel[1].isActive
    /\ \A k \in 1..2 : _tabGroupModel[k].tabs # <<>>

\* the column the groups service gives the group with identity id now
ColumnOf(id) == editorGroupToColumn(Svc, [id |-> id])

\* C14: once the Store is built, after every reconciliation step every group
\* of the Store is a group of the groups service, its viewColumn is the column
\* of the group with its identity, and so is the viewColumn of each of its
\* tabs.
C14_ColumnsCurrent ==
    (ready /\ AfterNotification /\ handled \in Applied) =>
        \A k \in 1..Len(_tabGroupModel) :
            LET g == _tabGroupModel[k]
            IN  /\ HasGroup(Svc, g.groupId)
                /\ g.viewColumn = ColumnOf(g.groupId)
                /\ \A i \in 1..Len(g.tabs) : g.tabs[i].viewColumn = ColumnOf(g.groupId)

\* the tabs of the Store
StoreTabs ==
    UNION {{_tabGroupModel[k].tabs[i] : i \in 1..Len(_tabGroupModel[k].tabs)} :
              k \in 1..Len(_tabGroupModel)}

\* the editor input a tab was made of
EditorOf(tab) == CHOOSE e \in AllEditors : CanonicalUri(e) = tab.resource

\* C15: every tab of the Store has one additional resource when its editor is
\* a plain one and two when it is a diff or a side-by-side editor, the second
\* being the one of the secondary (for a diff editor: the original) side; the
\* untyped editor input of a diff or side-by-side tab is defined, and no
\* command given a tab of the projection ends in a TypeError.
C15_AdditionalResources ==
    /\ lastEvent.kind \in {"$moveTab", "$closeTab"} => lastEvent.result # TypeError
    /\ \A tab \in StoreTabs :
        LET e == EditorOf(tab)
            more == tab.additionalResourcesAndViewIds
        IN  /\ more[1].resource = CanonicalUri(e)
            /\ IF InputClass(e) = "plain"
               THEN Len(more) = 1
               ELSE /\ Len(more) = 2
                    /\ more[2].resource = SecondaryUri(e)
                    /\ tab.editorId = InputClass(e)
                    /\ _tabToUntypedEditorInput(tab).shape = InputClass(e)

\* the Store holds the tab of a plain, of a diff and of a side-by-side editor
C15_Witness ==
    /\ ready
    /\ {EditorOf(tab) : tab \in StoreTabs} = AllEditors

\* C16: the second additional resource of a side-by-side tab has the type
\* identifier of the secondary side of its editor, or the editor's own when
\* the secondary side has none.
C16_SecondaryViewId ==
    \A tab \in StoreTabs :
        LET e == EditorOf(tab)
        IN  InputClass(e) = "sideBySide" =>
                tab.additionalResourcesAndViewIds[2].viewId =
                    IF SecondaryTypeId(e) # NoEditor THEN SecondaryTypeId(e)
                    ELSE EditorTypeId(e)

\* the Store with the tab at index i of the group with identity id the active
\* tab of that group
ActiveAt(model, id, i) ==
    [k \in 1..Len(model) |->
        IF model[k].groupId = id
        THEN [model[k] EXCEPT
                !.tabs = [j \in 1..Len(model[k].tabs) |->
                            [model[k].tabs[j] EXCEPT !.isActive = (j = i + 1)]],
                !.activeTab = RefAt(i + 1)]
        ELSE model[k]]

\* C17: once the Store is built, an EDITOR_ACTIVE notification for group id
\* and index i leaves the tab at index i of the Store group with that identity
\* the only active tab and the activeTab of that group, and changes no other
\* group and no group's isActive.
C17_TabActiveChange ==
    [][(ready /\ lastEvent'.kind = "EDITOR_ACTIVE") =>
          \A id \in Ids, i \in Indexes :
              EditorActive(id, i, "full")
                  => _tabGroupModel' = ActiveAt(_tabGroupModel, id, i)]_vars

\* C18: once the Store is built, after every reconciliation step the keys of
\* _tabModel are the identities of the groups of the Store. (The value of a
\* key is the very array that is the tabs of its group, lines 181-183.)
C18_LookupCurrent ==
    (ready /\ AfterNotification /\ handled \in Applied) =>
        _tabModel = StoreIds(_tabGroupModel)

\* the editors that have a tab in the payload the extension host has
ProxyEditors ==
    UNION {{proxyModel[k].tabs[i].resource : i \in 1..Len(proxyModel[k].tabs)} :
              k \in 1..Len(proxyModel)}

\* C19: a $closeTab that resolves its group and its editor leaves one close
\* request, for that editor, open in that group; the request is carried out,
\* and when it has completed the editor is closed and the payload the
\* extension host has holds no tab of it.
C19_CloseTabCloses ==
    /\ (lastEvent.kind = "$closeTab" /\ lastEvent.result = "closeEditor")
          => Cardinality(closing) = 1
    /\ \A req \in closing :
          /\ HasGroup(Svc, req.group)
          /\ IndexOf(getGroup(Svc, req.group).editors, req.editor) # -1
    /\ lastEvent.kind = "closeEditor"
          => /\ closing = {}
             /\ ~IsOpen(lastEvent.editor)
             /\ CanonicalUri(lastEvent.editor) \notin ProxyEditors

\* the incremental handlers, as handled names them
Incremental == {"TabLabelChange", "TabOpen", "TabClose", "TabActiveChange"}

\* C20: whenever a notification is given to an incremental handler, the entry
\* of the Store the handler addresses for the notification's group exists and
\* is the group with that identity, the index is within the bounds of its
\* tabs, and the handler does not throw.
C20_HandlersAddressTheirGroup ==
    [][(/\ handled' \in Incremental \cup {"threw"}
        /\ lastEvent'.kind \in {"EDITOR_LABEL", "EDITOR_OPEN", "EDITOR_CLOSE",
                               "EDITOR_ACTIVE"}) =>
          \A id \in Ids, i \in Indexes :
              (\/ \E e \in Editors : EditorOpen(id, e, i, "full")
               \/ EditorClose(id, i, "full")
               \/ EditorActive(id, i, "full")
               \/ \E l \in Labels : EditorLabel(id, i, l, "full"))
                  => /\ handled' # "threw"
                     /\ ~Undef(_tabGroupModel, id)
                     /\ _tabGroupModel[id + 1].groupId = id
                     /\ IF handled' = "TabOpen"
                        THEN i <= Len(_tabGroupModel[id + 1].tabs)
                        ELSE i < Len(_tabGroupModel[id + 1].tabs)]_vars

====
